---- MODULE Spec2Model ----
(***************************************************************************)
(* A model of mira.py: the proxy loader, the email loader, one submission  *)
(* and the loop of process_emails.                                         *)
(*                                                                         *)
(* A Python str is a sequence of one-character strings, so that strip(),   *)
(* split(':') and the f-strings are computed character by character.  A    *)
(* call that may raise yields an outcome record: Return(v) or Raise(e).    *)
(***************************************************************************)
EXTENDS Integers, Sequences, FiniteSets, TLC

VARIABLES proxy_file, proxies, email_file, delay_range, results_file,
          pc, exc, emails, i, successful, failed, buffer,
          response, ok, attempts, sleep_time

vars == <<proxy_file, proxies, email_file, delay_range, results_file,
          pc, exc, emails, i, successful, failed, buffer,
          response, ok, attempts, sleep_time>>

----------------------------------------------------------------------------
(* Bounds of the model *)

MaxProxyLines == 2

MaxEmailLines == 2

----------------------------------------------------------------------------
(* Strings *)

None == "None"

\* The characters str.strip() removes that the inputs below use.
Whitespace == {" ", "\n"}

RECURSIVE lstrip(_)
lstrip(s) ==
    IF s # <<>> /\ Head(s) \in Whitespace THEN lstrip(Tail(s)) ELSE s

RECURSIVE rstrip(_)
rstrip(s) ==
    IF s # <<>> /\ s[Len(s)] \in Whitespace
    THEN rstrip(SubSeq(s, 1, Len(s) - 1))
    ELSE s

strip(s) == rstrip(lstrip(s))

\* str.split(sep) for a one-character separator: always at least one token.
RECURSIVE split(_, _)
split(s, sep) ==
    IF \E k \in 1..Len(s) : s[k] = sep
    THEN LET k == CHOOSE j \in 1..Len(s) :
                      s[j] = sep /\ \A m \in 1..(j - 1) : s[m] # sep
         IN  <<SubSeq(s, 1, k - 1)>> \o split(SubSeq(s, k + 1, Len(s)), sep)
    ELSE <<s>>

----------------------------------------------------------------------------
(* Exceptions *)

Return(v) == [kind |-> "return", value |-> v]

Raise(e) == [kind |-> "raise", exc |-> e]

\* The classes each exception used here is an instance of.
Bases(e) ==
    CASE e = "FileNotFoundError" -> {"FileNotFoundError", "OSError", "Exception"}
      [] e = "PermissionError"   -> {"PermissionError", "OSError", "Exception"}
      [] e = "ValueError"        -> {"ValueError", "Exception"}
      [] e = "AttributeError"    -> {"AttributeError", "Exception"}
      [] e = "JSONDecodeError"   -> {"JSONDecodeError", "ValueError", "Exception"}
      [] e = "ConnectionError"   -> {"ConnectionError", "RequestException",
                                     "OSError", "Exception"}
      [] e = "Timeout"           -> {"Timeout", "RequestException",
                                     "OSError", "Exception"}
      [] e = "ProxyError"        -> {"ProxyError", "ConnectionError",
                                     "RequestException", "OSError", "Exception"}
      [] OTHER                   -> {e, "Exception"}

isinstance(e, cls) == cls \in Bases(e)

\* open(filename, 'r'): the lines of a readable file, an OSError otherwise.
open_r(file) ==
    CASE file.status = "ok"      -> Return(file.lines)
      [] file.status = "missing" -> Raise("FileNotFoundError")
      [] OTHER                   -> Raise("PermissionError")

----------------------------------------------------------------------------
(* ProxyConfig *)

ProxyConfig(proxy_string) ==
    LET tokens == split(strip(proxy_string), ":")
    IN  IF Len(tokens) = 4
        THEN Return([ip |-> tokens[1], port |-> tokens[2],
                     username |-> tokens[3], password |-> tokens[4]])
        ELSE Raise("ValueError")

get_proxy_dict(p) ==
    LET proxy_auth == p.username \o <<":">> \o p.password \o <<"@">>
                        \o p.ip \o <<":">> \o p.port
        url == <<"h", "t", "t", "p", ":", "/", "/">> \o proxy_auth
    IN  [http |-> url, https |-> url]

----------------------------------------------------------------------------
(* MiraWaitlistSubmitter.load_proxies *)

\* Faulty variant: a line that does not parse ends the load (break for continue).
RECURSIVE parse_proxy_lines_break(_)
parse_proxy_lines_break(lines) ==
    IF lines = <<>> THEN Return(<<>>)
    ELSE LET parsed == ProxyConfig(strip(Head(lines)))
             rest   == parse_proxy_lines_break(Tail(lines))
         IN  IF parsed.kind = "raise" /\ ~isinstance(parsed.exc, "ValueError")
             THEN parsed
             ELSE IF parsed.kind = "raise" THEN Return(<<>>)
             ELSE IF rest.kind = "raise" THEN rest
             ELSE Return(<<parsed.value>> \o rest.value)

\* The inner try of the loop: a ValueError of the parse skips the line.
RECURSIVE parse_proxy_lines(_)
parse_proxy_lines(lines) ==
    IF lines = <<>> THEN Return(<<>>)
    ELSE LET parsed == ProxyConfig(strip(Head(lines)))
             rest   == parse_proxy_lines(Tail(lines))
         IN  IF parsed.kind = "raise" /\ ~isinstance(parsed.exc, "ValueError")
             THEN parsed
             ELSE IF rest.kind = "raise" THEN rest
             ELSE IF parsed.kind = "raise" THEN rest
             ELSE Return(<<parsed.value>> \o rest.value)

load_proxies(file) ==
    LET opened == open_r(file)
        body   == IF opened.kind = "raise" THEN opened
                  ELSE parse_proxy_lines(opened.value)
    IN  IF body.kind = "raise" /\ isinstance(body.exc, "FileNotFoundError")
        THEN Return(<<>>)
        ELSE body

\* MiraWaitlistSubmitter.__init__: self.proxies = self.load_proxies(proxy_file)
Construct ==
    /\ pc = "new"
    /\ LET loaded == load_proxies(proxy_file)
       IN  IF loaded.kind = "return"
           THEN /\ proxies' = loaded.value
                /\ pc' = "constructed"
                /\ exc' = None
           ELSE /\ proxies' = proxies
                /\ pc' = "ctor_raised"
                /\ exc' = loaded.exc
    /\ UNCHANGED <<proxy_file, email_file, delay_range, results_file, emails, i,
                   successful, failed, buffer, response, ok, attempts,
                   sleep_time>>

----------------------------------------------------------------------------
(* MiraWaitlistSubmitter.get_random_proxy *)

\* The values random.choice may make get_random_proxy return; <<>> is {}.
get_random_proxy(pool) ==
    IF pool = <<>> THEN {<<>>}
    ELSE {<<get_proxy_dict(pool[k])>> : k \in 1..Len(pool)}

----------------------------------------------------------------------------
(* MiraWaitlistSubmitter.load_emails *)

\* Faulty variant: the filter tests the line, not the stripped line.
RECURSIVE nonempty_stripped(_)
nonempty_stripped(lines) ==
    IF lines = <<>> THEN <<>>
    ELSE IF Head(lines) # <<>>
         THEN <<strip(Head(lines))>> \o nonempty_stripped(Tail(lines))
         ELSE nonempty_stripped(Tail(lines))

RECURSIVE nonblank_stripped(_)
nonblank_stripped(lines) ==
    IF lines = <<>> THEN <<>>
    ELSE IF strip(Head(lines)) # <<>>
         THEN <<strip(Head(lines))>> \o nonblank_stripped(Tail(lines))
         ELSE nonblank_stripped(Tail(lines))

load_emails(file) ==
    LET opened == open_r(file)
        body   == IF opened.kind = "raise" THEN opened
                  ELSE Return(nonblank_stripped(opened.value))
    IN  IF body.kind = "raise" /\ isinstance(body.exc, "FileNotFoundError")
        THEN Return(<<>>)
        ELSE IF body.kind = "raise" /\ isinstance(body.exc, "Exception")
        THEN Return(<<>>)
        ELSE body

----------------------------------------------------------------------------
(* MiraWaitlistSubmitter.check_response_success and submit_email *)

SuccessMessage == "\"Added to waitlist successfully\""

\* response.json(): the parsed body, or a JSONDecodeError.
response_json(resp) ==
    IF resp.body.kind = "malformed" THEN Raise("JSONDecodeError")
    ELSE Return(resp.body)

\* dict.get(key): only a JSON object has it; a missing key gives None.
dict_get(data, key) ==
    IF data.kind # "object" THEN Raise("AttributeError")
    ELSE Return(data[key])

\* Faulty variant: v == True, which the number 1 satisfies too.
equals_True(v) == v \in {"true", "1"}

\* v is True
is_True(v) == v = "true"

\* Faulty variant: without the handler "except Exception".
check_response_success_json_only(resp) ==
    LET response_data == response_json(resp)
        success == IF response_data.kind = "raise" THEN response_data
                   ELSE dict_get(response_data.value, "success")
        message == IF success.kind = "raise" THEN success
                   ELSE IF ~is_True(success.value) THEN Return(None)
                   ELSE dict_get(response_data.value, "message")
        body    == IF success.kind = "raise" THEN success
                   ELSE IF ~is_True(success.value) THEN Return(FALSE)
                   ELSE IF message.kind = "raise" THEN message
                   ELSE Return(message.value = SuccessMessage)
    IN  IF body.kind = "raise" /\ isinstance(body.exc, "JSONDecodeError")
        THEN Return(FALSE)
        ELSE body

check_response_success(resp) ==
    LET response_data == response_json(resp)
        success == IF response_data.kind = "raise" THEN response_data
                   ELSE dict_get(response_data.value, "success")
        message == IF success.kind = "raise" THEN success
                   ELSE IF ~is_True(success.value) THEN Return(None)
                   ELSE dict_get(response_data.value, "message")
        body    == IF success.kind = "raise" THEN success
                   ELSE IF ~is_True(success.value) THEN Return(FALSE)
                   ELSE IF message.kind = "raise" THEN message
                   ELSE Return(message.value = SuccessMessage)
    IN  IF body.kind = "raise" /\ isinstance(body.exc, "JSONDecodeError")
        THEN Return(FALSE)
        ELSE IF body.kind = "raise" /\ isinstance(body.exc, "Exception")
        THEN Return(FALSE)
        ELSE body

\* self.session.post(...): a response, or the exception of the transport.
session_post(reply) ==
    IF reply.kind = "error" THEN Raise(reply.exc) ELSE Return(reply)

submit_email(email, reply) ==
    LET posted  == session_post(reply)
        checked == IF posted.kind = "raise" THEN posted
                   ELSE IF posted.value.status_code # 200 THEN Return(FALSE)
                   ELSE check_response_success(posted.value)
        body    == IF checked.kind = "raise" THEN checked
                   ELSE Return(checked.value)
    IN  IF body.kind = "raise" /\ isinstance(body.exc, "RequestException")
        THEN Return(FALSE)
        ELSE body

----------------------------------------------------------------------------
(* Inputs *)

\* Every sequence of at most n elements of S.
SeqsUpTo(S, n) == UNION {[1..k -> S] : k \in 0..n}

Files(Lines, n) ==
    {[status |-> "ok", lines |-> ls] : ls \in SeqsUpTo(Lines, n)}
        \cup {[status |-> "missing", lines |-> <<>>],
              [status |-> "unreadable", lines |-> <<>>]}

ProxyLines ==
    { <<"h", ":", "1", ":", "u", ":", "p", "\n">>,
      <<" ", "h", ":", "1", ":", "u", ":", "p", " ", "\n">>,
      <<"g", ":", "2", ":", "v", ":", "w">>,
      <<"h", ":", "1", ":", "u", ":", "p", ":", "q", "\n">>,
      <<"h", ":", "1", ":", "u", "\n">>,
      <<":", ":", ":", "\n">>,
      <<"\n">> }

ProxyFiles == Files(ProxyLines, MaxProxyLines)

MainProxyFiles ==
    { [status |-> "missing", lines |-> <<>>],
      [status |-> "unreadable", lines |-> <<>>],
      [status |-> "ok",
       lines |-> << <<"h", ":", "1", ":", "u", ":", "p", "\n">>,
                    <<"h", ":", "1", ":", "u", "\n">> >>] }

EmailLines ==
    { <<"a", "\n">>,
      <<" ", "b", " ", "\n">>,
      <<" ", "\n">>,
      <<"\n">> }

EmailFiles == Files(EmailLines, MaxEmailLines)

\* delay_range of process_emails; the default is the first.
DefaultDelayRange == <<2, 0>>

DelayRanges == {DefaultDelayRange, <<0, 1>>, <<1, 1>>}

\* results_mira.txt before the run: absent, or left by an earlier run.
ResultFiles ==
    { [exists |-> FALSE, text |-> <<>>],
      [exists |-> TRUE, text |-> <<"z">> \o <<":", " ", "F", "A", "I", "L", "E", "D", "\n">>] }

NoResponse == [kind |-> "none"]

TransportErrors == {"ConnectionError", "Timeout", "ProxyError"}

Statuses == {200, 201, 429, 500}

OtherMessage == "\"added to waitlist successfully\""

Bodies ==
    {[kind |-> k, success |-> None, message |-> None] :
        k \in {"malformed", "null", "array"}}
    \cup {[kind |-> "object", success |-> s, message |-> m] :
            s \in {None, "true", "false", "1"},
            m \in {None, SuccessMessage, OtherMessage}}

Replies ==
    {[kind |-> "error", exc |-> e] : e \in TransportErrors}
    \cup {[kind |-> "response", status_code |-> c, body |-> b] :
            c \in Statuses, b \in Bodies}

----------------------------------------------------------------------------
(* MiraWaitlistSubmitter.process_emails *)

SuccessSuffix == <<":", " ", "S", "U", "C", "C", "E", "S", "S", "\n">>

FailedSuffix == <<":", " ", "F", "A", "I", "L", "E", "D", "\n">>

\* random.uniform(a, b) = a + (b - a) * random(), on whole seconds: a value
\* between the two bounds, whichever of them is the larger.
uniform(a, b) == IF a <= b THEN a..b ELSE b..a

\* Leaving the with block closes results_file, which writes the buffer out.
ClosedFile == [exists |-> TRUE, text |-> results_file.text \o buffer]

\* Lines 156-162: load the emails, return when there are none.
LoadEmails ==
    /\ pc = "constructed"
    /\ LET loaded == load_emails(email_file)
       IN  IF loaded.kind = "raise"
           THEN /\ pc' = "raised"
                /\ exc' = loaded.exc
                /\ UNCHANGED emails
           ELSE /\ emails' = loaded.value
                /\ pc' = IF loaded.value = <<>> THEN "returned" ELSE "open"
                /\ UNCHANGED exc
    /\ successful' = 0
    /\ failed' = 0
    /\ UNCHANGED <<proxy_file, proxies, email_file, delay_range, results_file,
                   i, buffer, response, ok, attempts, sleep_time>>

\* Line 164: open('results_mira.txt', 'w') creates or truncates the file.
OpenResults ==
    /\ pc = "open"
    /\ results_file' = [exists |-> TRUE, text |-> <<>>]
    /\ buffer' = <<>>
    /\ i' = 1
    /\ pc' = "submit"
    /\ UNCHANGED <<proxy_file, proxies, email_file, delay_range, exc, emails,
                   successful, failed, response, ok, attempts, sleep_time>>

\* Line 168: the call self.submit_email(email) of iteration i.
Submit ==
    /\ pc = "submit"
    /\ \E proxy \in get_random_proxy(proxies), reply \in Replies :
          LET out == submit_email(emails[i], reply)
          IN  /\ response' = reply
              /\ IF out.kind = "return"
                 THEN /\ ok' = out.value
                      /\ attempts' = Append(attempts,
                             [email |-> emails[i], proxy |-> proxy,
                              returned |-> IF out.value THEN "True" ELSE "False"])
                      /\ pc' = "record"
                      /\ UNCHANGED <<exc, results_file, buffer>>
                 ELSE /\ attempts' = Append(attempts,
                             [email |-> emails[i], proxy |-> proxy,
                              returned |-> "raised"])
                      /\ results_file' = ClosedFile
                      /\ buffer' = <<>>
                      /\ exc' = out.exc
                      /\ pc' = "raised"
                      /\ UNCHANGED ok
    /\ UNCHANGED <<proxy_file, proxies, email_file, delay_range, emails, i,
                   successful, failed, sleep_time>>

\* Faulty variant: both branches write the SUCCESS line.
Record_same_text ==
    /\ pc = "record"
    /\ IF ok
       THEN /\ successful' = successful + 1
            /\ buffer' = buffer \o emails[i] \o SuccessSuffix
            /\ UNCHANGED failed
       ELSE /\ failed' = failed + 1
            /\ buffer' = buffer \o emails[i] \o SuccessSuffix
            /\ UNCHANGED successful
    /\ pc' = "flush"
    /\ UNCHANGED <<proxy_file, proxies, email_file, delay_range, results_file,
                   exc, emails, i, response, ok, attempts, sleep_time>>

\* Faulty variant: a failure is counted as a success.
Record_miscount ==
    /\ pc = "record"
    /\ IF ok
       THEN /\ successful' = successful + 1
            /\ buffer' = buffer \o emails[i] \o SuccessSuffix
            /\ UNCHANGED failed
       ELSE /\ successful' = successful + 1
            /\ buffer' = buffer \o emails[i] \o FailedSuffix
            /\ UNCHANGED failed
    /\ pc' = "flush"
    /\ UNCHANGED <<proxy_file, proxies, email_file, delay_range, results_file,
                   exc, emails, i, response, ok, attempts, sleep_time>>

\* Lines 168-173: count the outcome and write its line.
Record ==
    /\ pc = "record"
    /\ IF ok
       THEN /\ successful' = successful + 1
            /\ buffer' = buffer \o emails[i] \o SuccessSuffix
            /\ UNCHANGED failed
       ELSE /\ failed' = failed + 1
            /\ buffer' = buffer \o emails[i] \o FailedSuffix
            /\ UNCHANGED successful
    /\ pc' = "flush"
    /\ UNCHANGED <<proxy_file, proxies, email_file, delay_range, results_file,
                   exc, emails, i, response, ok, attempts, sleep_time>>

\* Faulty variant: the flush is left out.
Flush_skipped ==
    /\ pc = "flush"
    /\ pc' = "pace"
    /\ UNCHANGED <<proxy_file, proxies, email_file, delay_range, results_file,
                   exc, emails, i, successful, failed, buffer, response, ok,
                   attempts, sleep_time>>

\* Line 174: results_file.flush()
Flush ==
    /\ pc = "flush"
    /\ results_file' = [results_file EXCEPT !.text = @ \o buffer]
    /\ buffer' = <<>>
    /\ pc' = "pace"
    /\ UNCHANGED <<proxy_file, proxies, email_file, delay_range, exc, emails, i,
                   successful, failed, response, ok, attempts, sleep_time>>

\* Faulty variant: a failed submission ends the loop.
Pace_stop_on_failure ==
    /\ pc = "pace"
    /\ IF i < Len(emails) /\ ok
       THEN /\ \E t \in uniform(delay_range[1], delay_range[2]) :
                  sleep_time' = <<t>>
            /\ pc' = "sleep"
       ELSE /\ pc' = "close"
            /\ UNCHANGED sleep_time
    /\ UNCHANGED <<proxy_file, proxies, email_file, delay_range, results_file,
                   exc, emails, i, successful, failed, buffer, response, ok,
                   attempts>>

\* Lines 176-178: draw the delay when more emails remain, else leave the loop.
Pace ==
    /\ pc = "pace"
    /\ IF i < Len(emails)
       THEN /\ \E t \in uniform(delay_range[1], delay_range[2]) :
                  sleep_time' = <<t>>
            /\ pc' = "sleep"
       ELSE /\ pc' = "close"
            /\ UNCHANGED sleep_time
    /\ UNCHANGED <<proxy_file, proxies, email_file, delay_range, results_file,
                   exc, emails, i, successful, failed, buffer, response, ok,
                   attempts>>

\* Line 179: sleep(sleep_time), a ValueError for a negative length; then the
\* next iteration of the for loop.
Sleep ==
    /\ pc = "sleep"
    /\ IF sleep_time[1] < 0
       THEN /\ results_file' = ClosedFile
            /\ buffer' = <<>>
            /\ exc' = "ValueError"
            /\ pc' = "raised"
            /\ UNCHANGED i
       ELSE /\ i' = i + 1
            /\ pc' = "submit"
            /\ UNCHANGED <<results_file, buffer, exc>>
    /\ sleep_time' = <<>>
    /\ UNCHANGED <<proxy_file, proxies, email_file, delay_range, emails,
                   successful, failed, response, ok, attempts>>

\* The end of the with block and lines 181-182.
Close ==
    /\ pc = "close"
    /\ results_file' = ClosedFile
    /\ buffer' = <<>>
    /\ pc' = "done"
    /\ UNCHANGED <<proxy_file, proxies, email_file, delay_range, exc, emails, i,
                   successful, failed, response, ok, attempts, sleep_time>>

----------------------------------------------------------------------------
(* The runs of main(): construct the submitter, then process_emails *)

Init ==
    /\ proxy_file \in MainProxyFiles
    /\ email_file \in EmailFiles
    /\ delay_range \in DelayRanges
    /\ results_file \in ResultFiles
    /\ proxies = <<>>
    /\ pc = "new"
    /\ exc = None
    /\ emails = <<>>
    /\ i = 0
    /\ successful = 0
    /\ failed = 0
    /\ buffer = <<>>
    /\ response = NoResponse
    /\ ok = FALSE
    /\ attempts = <<>>
    /\ sleep_time = <<>>

Next ==
    \/ Construct
    \/ LoadEmails
    \/ OpenResults
    \/ Submit
    \/ Record
    \/ Flush
    \/ Pace
    \/ Sleep
    \/ Close

Spec == Init /\ [][Next]_vars

(* The proxy loader alone, over every proxy file of the bound *)

InitProxies ==
    /\ proxy_file \in ProxyFiles
    /\ email_file = [status |-> "missing", lines |-> <<>>]
    /\ delay_range = DefaultDelayRange
    /\ results_file = [exists |-> FALSE, text |-> <<>>]
    /\ proxies = <<>>
    /\ pc = "new"
    /\ exc = None
    /\ emails = <<>>
    /\ i = 0
    /\ successful = 0
    /\ failed = 0
    /\ buffer = <<>>
    /\ response = NoResponse
    /\ ok = FALSE
    /\ attempts = <<>>
    /\ sleep_time = <<>>

NextProxies == Construct

SpecProxies == InitProxies /\ [][NextProxies]_vars

----------------------------------------------------------------------------
(* Vocabulary of the properties, stated without the operators of the code *)

IsBlank(line) == \A k \in 1..Len(line) : line[k] \in Whitespace

\* The line without its leading and trailing whitespace.
Trimmed(line) ==
    IF IsBlank(line) THEN <<>>
    ELSE LET inked == {k \in 1..Len(line) : line[k] \notin Whitespace}
             first == CHOOSE k \in inked : \A m \in inked : k <= m
             last  == CHOOSE k \in inked : \A m \in inked : m <= k
         IN  SubSeq(line, first, last)

Colons(s) == Cardinality({k \in 1..Len(s) : s[k] = ":"})

HasFourTokens(line) == Colons(Trimmed(line)) = 3

IsPrefix(s, t) == Len(s) <= Len(t) /\ SubSeq(t, 1, Len(s)) = s

\* The text of the file cut at its newlines, each line without its newline.
RECURSIVE FileLines(_)
FileLines(text) ==
    IF text = <<>> THEN <<>>
    ELSE IF \E k \in 1..Len(text) : text[k] = "\n"
         THEN LET k == CHOOSE j \in 1..Len(text) :
                           text[j] = "\n" /\ \A m \in 1..(j - 1) : text[m] # "\n"
              IN  <<SubSeq(text, 1, k - 1)>>
                      \o FileLines(SubSeq(text, k + 1, Len(text)))
         ELSE <<text>>

SuccessText == <<":", " ", "S", "U", "C", "C", "E", "S", "S">>

FailedText == <<":", " ", "F", "A", "I", "L", "E", "D">>

EndsWith(s, t) == Len(t) <= Len(s) /\ SubSeq(s, Len(s) - Len(t) + 1, Len(s)) = t

\* The outcome line of the k-th call of submit_email.
OutcomeLine(k) ==
    attempts[k].email
        \o (IF attempts[k].returned = "True" THEN SuccessText ELSE FailedText)

InLoop == pc \in {"submit", "record", "flush", "pace", "sleep", "close", "done"}

\* The emails whose outcome line line 174 has flushed.
Flushed == IF pc \in {"submit", "record", "flush"} THEN i - 1 ELSE i

\* The emails whose outcome has been counted and written.
Recorded == IF pc \in {"submit", "record"} THEN i - 1 ELSE i

NoEmails ==
    \/ email_file.status # "ok"
    \/ \A k \in 1..Len(email_file.lines) : IsBlank(email_file.lines[k])

GoodReply(r) ==
    /\ r.kind = "response"
    /\ r.status_code = 200
    /\ r.body.kind = "object"
    /\ r.body.success = "true"
    /\ r.body.message = SuccessMessage

----------------------------------------------------------------------------
(* Properties *)

\* C1: when process_emails completes, the result file holds exactly one line
\* per loaded email, in input order; line k is "<email_k>: SUCCESS" when the
\* k-th call of submit_email returned True and "<email_k>: FAILED" otherwise.
C1_OneLinePerEmail ==
    pc = "done" =>
        LET lines == FileLines(results_file.text)
        IN  /\ Len(lines) = Len(emails)
            /\ Len(attempts) = Len(emails)
            /\ \A k \in 1..Len(emails) :
                  lines[k] = emails[k]
                      \o (IF attempts[k].returned = "True"
                          THEN SuccessText ELSE FailedText)

C1_Witness ==
    /\ pc = "done"
    /\ Len(emails) = 2
    /\ emails[1] # emails[2]
    /\ attempts[1].returned = "False"
    /\ attempts[2].returned = "True"

\* C2: submit_email returns True exactly when the response has status 200 and
\* a JSON object body whose success is true and whose message is exactly
\* "Added to waitlist successfully"; in every other case it returns False.
C2_TrueIffExactSuccess ==
    attempts # <<>> =>
        attempts[Len(attempts)].returned
            = (IF GoodReply(response) THEN "True" ELSE "False")

C2_Witness ==
    /\ pc = "record"
    /\ GoodReply(response)
    /\ ok

\* C3: no exception leaves submit_email: a transport error, a status other
\* than 200, a body that is not JSON and a JSON body that is not an object
\* all make the call return False.
C3_NoExceptionEscapes ==
    /\ pc # "raised"
    /\ \A k \in 1..Len(attempts) : attempts[k].returned \in {"True", "False"}
    /\ (attempts # <<>> /\ ~GoodReply(response)) =>
            attempts[Len(attempts)].returned = "False"

C3_Witness ==
    /\ pc = "record"
    /\ response.kind = "response"
    /\ response.status_code = 200
    /\ response.body.kind = "array"
    /\ ~ok

\* C4: with an email file that is missing, unreadable or without a non-blank
\* line, process_emails returns without raising, never calls submit_email and
\* never opens the result file, which stays as it was.
C4_NoEmailsNoRun ==
    /\ [](NoEmails => /\ pc \in {"new", "ctor_raised", "constructed", "returned"}
                      /\ attempts = <<>>)
    /\ [][(NoEmails /\ pc = "constructed") =>
              (pc' = "returned" /\ results_file' = results_file)]_vars

C4_Witness ==
    /\ pc = "returned"
    /\ email_file.status = "ok"
    /\ Len(email_file.lines) = 2
    /\ results_file.exists

\* C5: load_proxies returns, in file order, one record per line that has
\* exactly four ':'-separated tokens, its fields being those tokens; every
\* other line is left out, raises nothing and does not stop the load.
C5_FourTokenLinesOnly ==
    (proxy_file.status = "ok" /\ pc # "new") =>
        LET good == SelectSeq(proxy_file.lines, HasFourTokens)
        IN  /\ pc = "constructed"
            /\ Len(proxies) = Len(good)
            /\ \A k \in 1..Len(good) :
                  /\ proxies[k].ip \o <<":">> \o proxies[k].port \o <<":">>
                        \o proxies[k].username \o <<":">> \o proxies[k].password
                        = Trimmed(good[k])
                  /\ Colons(proxies[k].ip) = 0
                  /\ Colons(proxies[k].port) = 0
                  /\ Colons(proxies[k].username) = 0
                  /\ Colons(proxies[k].password) = 0

C5_Witness ==
    /\ pc = "constructed"
    /\ Len(proxy_file.lines) = 2
    /\ Colons(Trimmed(proxy_file.lines[1])) = 4
    /\ Len(proxies) = 1

\* C6: when the proxy file cannot be opened, missing or unreadable,
\* load_proxies returns the empty list and raises nothing, so the submitter
\* is constructed.
C6_UnopenableGivesEmptyPool ==
    (proxy_file.status # "ok" /\ pc # "new") =>
        (pc = "constructed" /\ proxies = <<>>)

\* C7: each loaded email is submitted exactly once and in order: no call is
\* repeated, no failure ends the run, and at the end there are as many calls
\* as emails.
C7_EachEmailOnce ==
    /\ pc # "raised"
    /\ Len(attempts) <= Len(emails)
    /\ \A k \in 1..Len(attempts) : attempts[k].email = emails[k]
    /\ InLoop => Len(attempts) = (IF pc = "submit" THEN i - 1 ELSE i)
    /\ pc = "done" => Len(attempts) = Len(emails)

C7_Witness ==
    /\ pc = "done"
    /\ Len(emails) = 2
    /\ attempts[1].returned = "False"

C9_TallyMatchesLines ==
    InLoop =>
        LET lines == FileLines(results_file.text \o buffer)
        IN  /\ successful
                = Cardinality({k \in 1..Len(lines) : EndsWith(lines[k], SuccessText)})
            /\ failed
                = Cardinality({k \in 1..Len(lines) : EndsWith(lines[k], FailedText)})
            /\ successful + failed = Recorded
            /\ Len(lines) = Recorded
            /\ (pc = "done" => successful + failed = Len(emails))

C9_Witness ==
    /\ pc = "done"
    /\ successful = 1
    /\ failed = 1

\* C10: a delay range whose lower bound is above its upper bound, such as the
\* default (2, 0), is reported as an error and never used to draw a delay.
C10_InvertedRangeRejected ==
    delay_range[1] > delay_range[2] => (pc # "sleep" /\ sleep_time = <<>>)

====
